---- MODULE Spec2Model ----
(***************************************************************************)
(* Model of pydantic/generics.py: GenericModel.__class_getitem__ and the   *)
(* helpers it calls (resolve_type_hint, check_parameters_count,            *)
(* _build_generic_fields, _parameterize_generic_field, _has_typevar) over  *)
(* the process-wide _generic_types_cache.                                  *)
(*                                                                         *)
(* `classes` maps the identity of every GenericModel subclass that exists  *)
(* to its attributes.  An identity is a string: the declared name of a     *)
(* declared class; for a class built by create_model, the identity of its  *)
(* base followed by the arguments in brackets, with one prime appended for *)
(* every object already built for the same base and arguments, so that two *)
(* objects never share an identity.                                        *)
(* A type expression is a record [k, n, a]:                                *)
(*   k = "tv"    a TypeVar named n                                         *)
(*   k = "leaf"  a plain type named n (int, str)                           *)
(*   k = "List"  typing.List applied to the arguments a                    *)
(*   k = "cls"   the GenericModel subclass with identity n                 *)
(* A subscript argument is [tup, xs]: tup says whether the caller passed a *)
(* tuple, xs holds the elements (one element for a scalar).                *)
(***************************************************************************)
EXTENDS Integers, Sequences, FiniteSets, TLC

VARIABLES classes, cache, last, callers
vars == <<classes, cache, last, callers>>

---------------------------------------------------------------------------
(* Bounds *)

\* callers stop creating once this many classes have been created
MaxClasses == 2
\* nesting depth of __class_getitem__ calls before the interpreter gives up
MaxDepth == 4
\* longest argument tuple a caller passes
MaxArgs == 3

\* callers that subscript the same template with the same arguments at once
NCallers == 2

---------------------------------------------------------------------------
(* Type expressions and subscript arguments *)

TV(n) == [k |-> "tv", n |-> n, a |-> <<>>]
Leaf(n) == [k |-> "leaf", n |-> n, a |-> <<>>]
ListOf(x) == [k |-> "List", n |-> "List", a |-> <<x>>]
Cls(i) == [k |-> "cls", n |-> i, a |-> <<>>]

Scalar(x) == [tup |-> FALSE, xs |-> <<x>>]
Tuple(xs) == [tup |-> TRUE, xs |-> xs]

\* typing.get_args: the arguments of a generic alias, () for anything else
GetArgs(t) == IF t.k = "List" THEN t.a ELSE <<>>

\* lenient_issubclass(t, GenericModel)
IsGenericModel(t) == t.k = "cls"

---------------------------------------------------------------------------
(* Results of a subscript call *)

Ok(i) == [kind |-> "ok", id |-> i, actual |-> 0, expected |-> 0, descr |-> ""]
Err(kind) == [kind |-> kind, id |-> "", actual |-> 0, expected |-> 0, descr |-> ""]
NoCall == [kind |-> "none", id |-> "", actual |-> 0, expected |-> 0, descr |-> ""]

\* raise after remembering the failure in the cache
RaiseRecorded(st, res) ==
  [st |-> [classes |-> st.classes,
           cache |-> [k \in DOMAIN st.cache \cup {[c |-> res.kind, tup |-> TRUE, xs |-> <<>>]} |->
                        IF k \in DOMAIN st.cache THEN st.cache[k] ELSE ""]],
   res |-> res]

\* raise: the exception propagates to the caller, the module state stays as it is
Raise(st, res) == [st |-> st, res |-> res]

\* return cached / return cls: nothing is written
Return(st, i) == [st |-> st, res |-> Ok(i)]

---------------------------------------------------------------------------
(* check_parameters_count *)

ArityDescriptionSwapped(actual, expected) == IF actual > expected THEN "few" ELSE "many"

ArityDescription(actual, expected) == IF actual > expected THEN "many" ELSE "few"

\* a count check that accepts every count
CheckParametersCountAny(C, parameters) == Ok("")

CheckParametersCount(C, parameters) ==
  LET actual == Len(parameters)
      expected == Len(C.parameters)
  IN IF actual # expected
       THEN [kind |-> "ArityError", id |-> "", actual |-> actual, expected |-> expected,
             descr |-> ArityDescription(actual, expected)]
       ELSE Ok("")

---------------------------------------------------------------------------
(* typevars_map = dict(zip(cls.__parameters__, params)) *)

\* zip stops at the shorter of the two
TypevarsMap(parameters, params) ==
  LET n == IF Len(parameters) < Len(params) THEN Len(parameters) ELSE Len(params)
  IN [ks |-> SubSeq(parameters, 1, n), vs |-> SubSeq(params, 1, n)]

\* a lookup that looks the value it found up again
MapGetChained(m, x) ==
  LET first(y) == LET hits == {i \in 1..Len(m.ks) : m.ks[i] = y}
                  IN IF hits = {} THEN y
                     ELSE m.vs[CHOOSE i \in hits : \A j \in hits : j <= i]
  IN first(first(x))

\* typevars_map.get(x, x): one lookup, the value found is not looked up again
MapGet(m, x) ==
  LET hits == {i \in 1..Len(m.ks) : m.ks[i] = x}
  IN IF hits = {} THEN x
     ELSE m.vs[CHOOSE i \in hits : \A j \in hits : j <= i]

\* no short-circuit: every subscript builds a class
IsIdentityAbsent(m) == FALSE

\* typevars_map and all(k is v for k, v in typevars_map.items())
IsIdentity(m) == Len(m.ks) > 0 /\ \A i \in 1..Len(m.ks) : m.ks[i] = m.vs[i]

---------------------------------------------------------------------------
(* _has_typevar *)

RECURSIVE HasTypevar(_, _)
HasTypevar(cs, v) ==
  IF IsGenericModel(v) THEN ~cs[v.n].concrete
  ELSE IF GetArgs(v) # <<>> /\ \E i \in 1..Len(GetArgs(v)) : HasTypevar(cs, GetArgs(v)[i])
    THEN TRUE
  ELSE v.k = "tv"

\* tuple({k: None for k in parameters}.keys()): first occurrences, in order
RECURSIVE Unique(_)
Unique(s) ==
  IF s = <<>> THEN <<>>
  ELSE LET r == Unique(SubSeq(s, 1, Len(s) - 1))
           x == s[Len(s)]
       IN IF \E i \in 1..Len(r) : r[i] = x THEN r ELSE Append(r, x)

RemainingParameters(cs, hints) ==
  Unique(SelectSeq(hints, LAMBDA v : HasTypevar(cs, v)))

---------------------------------------------------------------------------
(* __concrete_name__ *)

Module == "__main__"

\* str() of a type as typing renders it inside an alias
RECURSIVE TypeRepr(_, _)
TypeRepr(cs, t) ==
  IF t.k = "tv" THEN "~" \o t.n
  ELSE IF t.k = "leaf" THEN t.n
  ELSE IF t.k = "cls" THEN Module \o "." \o cs[t.n].name
  ELSE "typing.List[" \o TypeRepr(cs, t.a[1]) \o "]"

\* param.__name__ if hasattr(param, '__name__') else str(param)
ParamName(cs, t) ==
  IF t.k \in {"tv", "leaf"} THEN t.n
  ELSE IF t.k = "cls" THEN cs[t.n].name
  ELSE TypeRepr(cs, t)

RECURSIVE JoinNames(_, _)
JoinNames(cs, params) ==
  IF params = <<>> THEN ""
  ELSE IF Len(params) = 1 THEN ParamName(cs, params[1])
  ELSE ParamName(cs, params[1]) \o ", " \o JoinNames(cs, Tail(params))

\* a name that renders the first argument only
DefaultConcreteNameFirst(cs, C, params) == C.name \o "[" \o ParamName(cs, params[1]) \o "]"

DefaultConcreteName(cs, C, params) == C.name \o "[" \o JoinNames(cs, params) \o "]"

\* str.title() on the type names used here
Title(n) == IF n = "int" THEN "Int" ELSE IF n = "str" THEN "Str" ELSE n

\* an overriding hook: f'{params[0].__name__.title()}Response'
CustomConcreteName(cs, C, params) == Title(ParamName(cs, params[1])) \o "Response"

ConcreteName(cs, C, params) ==
  IF C.hook = "custom" THEN CustomConcreteName(cs, C, params)
  ELSE DefaultConcreteName(cs, C, params)

---------------------------------------------------------------------------
(* _generic_types_cache *)

CacheKey(cls, p) == [c |-> cls, tup |-> p.tup, xs |-> p.xs]

\* an insertion that is lost
CachePutLost(ch, key, i) == ch

CachePut(ch, key, i) == [k \in DOMAIN ch \cup {key} |-> IF k = key THEN i ELSE ch[k]]

\* a store that writes the tuple key only
CacheStoreTupleOnly(ch, cls, params, i) == CachePut(ch, CacheKey(cls, Tuple(params)), i)

\* _generic_types_cache[(cls, params)] = created_model, and the scalar key for one argument
CacheStore(ch, cls, params, i) ==
  LET c1 == CachePut(ch, CacheKey(cls, Tuple(params)), i)
  IN IF Len(params) = 1 THEN CachePut(c1, CacheKey(cls, Scalar(params[1])), i) ELSE c1

GenericModelId == "GenericModel"

\* cached = _generic_types_cache.get((cls, params)); if cached is not None
CacheHit(st, cls, p) == CacheKey(cls, p) \in DOMAIN st.cache

CacheGet(st, cls, p) == st.cache[CacheKey(cls, p)]

\* the test applied to every template, not only to the root
PlaceholderMisuseAnyTemplate(cls, params) == \E i \in 1..Len(params) : params[i].k = "tv"

\* cls is GenericModel and any(isinstance(param, TypeVar) for param in params)
PlaceholderMisuse(cls, params) ==
  cls = GenericModelId /\ \E i \in 1..Len(params) : params[i].k = "tv"

\* a check that never fires
IsConcreteUnchecked(C) == FALSE

\* cls.__concrete__
IsConcrete(C) == C.concrete

---------------------------------------------------------------------------
(* resolve_type_hint, _build_generic_fields and __class_getitem__          *)
(*                                                                         *)
(* Each operator takes the module state st = [classes, cache] and returns  *)
(* the state it leaves behind together with its value; res is Ok(..) or    *)
(* the exception that propagates.  d is the call depth still available.    *)

RECURSIVE GetItem(_, _, _, _)
RECURSIVE Specialize(_, _, _, _)
RECURSIVE ResolveTypeHint(_, _, _, _)
RECURSIVE ResolveSeq(_, _, _, _)

\* tuple(resolve_type_hint(t, typevars_map) for t in ts), left to right
ResolveSeq(st, ts, m, d) ==
  IF ts = <<>> THEN [st |-> st, ts |-> <<>>, res |-> Ok("")]
  ELSE LET h == ResolveTypeHint(st, Head(ts), m, d)
       IN IF h.res.kind # "ok" THEN [st |-> h.st, ts |-> <<>>, res |-> h.res]
          ELSE LET r == ResolveSeq(h.st, Tail(ts), m, d)
               IN [st |-> r.st, ts |-> <<h.t>> \o r.ts, res |-> r.res]

\* a resolution that leaves templates in field types as they are
ResolveTypeHintNoReentry(st, type, m, d) ==
  IF GetArgs(type) # <<>>
    THEN LET r == ResolveSeq(st, GetArgs(type), m, d)
         IN [st |-> r.st, t |-> [type EXCEPT !.a = r.ts], res |-> r.res]
  ELSE [st |-> st, t |-> MapGet(m, type), res |-> Ok("")]

ResolveTypeHint(st, type, m, d) ==
  IF GetArgs(type) # <<>>
    THEN LET r == ResolveSeq(st, GetArgs(type), m, d)
         IN [st |-> r.st, t |-> [type EXCEPT !.a = r.ts], res |-> r.res]
  ELSE IF IsGenericModel(type) /\ ~st.classes[type.n].concrete
    THEN IF ~st.classes[type.n].hasParams
           THEN [st |-> st, t |-> type, res |-> Err("AttributeError")]
         ELSE LET r == ResolveSeq(st, st.classes[type.n].parameters, m, d)
              IN IF r.res.kind # "ok" THEN [st |-> r.st, t |-> type, res |-> r.res]
                 ELSE LET g == GetItem(r.st, type.n, Tuple(r.ts), d)
                      IN [st |-> g.st, t |-> Cls(g.res.id),
                          res |-> IF g.res.kind = "ok" THEN Ok("") ELSE g.res]
  ELSE [st |-> st, t |-> MapGet(m, type), res |-> Ok("")]

\* tuple(typevars_map.get(param, param) for param in field_type.__parameters__)
MapParameters(m, parameters) == [i \in 1..Len(parameters) |-> MapGet(m, parameters[i])]

RECURSIVE ParameterizeGenericField(_, _, _, _)
ParameterizeGenericField(st, fieldType, m, d) ==
  IF IsGenericModel(fieldType) /\ ~st.classes[fieldType.n].concrete
    THEN IF ~st.classes[fieldType.n].hasParams
           THEN [st |-> st, t |-> fieldType, res |-> Err("AttributeError")]
         ELSE LET g == GetItem(st, fieldType.n,
                               Tuple(MapParameters(m, st.classes[fieldType.n].parameters)), d)
              IN [st |-> g.st, t |-> Cls(g.res.id),
                  res |-> IF g.res.kind = "ok" THEN Ok("") ELSE g.res]
  ELSE [st |-> st, t |-> fieldType, res |-> Ok("")]

\* the field types handed to create_model, in field order
RECURSIVE BuildGenericFields(_, _, _, _)
BuildGenericFields(st, concreteTypeHints, m, d) ==
  IF concreteTypeHints = <<>> THEN [st |-> st, ts |-> <<>>, res |-> Ok("")]
  ELSE LET h == ParameterizeGenericField(st, Head(concreteTypeHints), m, d)
       IN IF h.res.kind # "ok" THEN [st |-> h.st, ts |-> <<>>, res |-> h.res]
          ELSE LET r == BuildGenericFields(h.st, Tail(concreteTypeHints), m, d)
               IN [st |-> r.st, ts |-> <<h.t>> \o r.ts, res |-> r.res]

\* the identity of the next object built for cls[params]
RECURSIVE IdentityText(_)
IdentityText(ts) ==
  IF ts = <<>> THEN ""
  ELSE LET h == IF Head(ts).k = "List" THEN "List[" \o IdentityText(Head(ts).a) \o "]"
                ELSE Head(ts).n
       IN IF Len(ts) = 1 THEN h ELSE h \o ", " \o IdentityText(Tail(ts))

RECURSIVE FreshIdentity(_, _)
FreshIdentity(cs, q) == IF q \in DOMAIN cs THEN FreshIdentity(cs, q \o "'") ELSE q

NewIdentity(cs, cls, params) == FreshIdentity(cs, cls \o "[" \o IdentityText(params) \o "]")

ClassPut(cs, i, C) == [k \in DOMAIN cs \cup {i} |-> IF k = i THEN C ELSE cs[k]]

\* create_model(model_name, __base__=cls, **fields) and the attributes set on the result
CreatedModel(cs, cls, params, concreteTypeHints, fields) ==
  LET C == cs[cls]
      concrete == \A i \in 1..Len(concreteTypeHints) : ~HasTypevar(cs, concreteTypeHints[i])
  IN [name |-> ConcreteName(cs, C, params),
      base |-> cls,
      args |-> params,
      concrete |-> concrete,
      hasParams |-> TRUE,
      parameters |-> IF concrete THEN C.parameters
                     ELSE RemainingParameters(cs, concreteTypeHints),
      hints |-> fields,
      hook |-> C.hook]

\* lines 31-74: everything after the cache lookup
Specialize(st, cls, p, d) ==
  LET C == st.classes[cls]
      params == p.xs
  IN
     IF IsConcrete(C) THEN Raise(st, Err("AlreadyConcreteError"))
     ELSE IF PlaceholderMisuse(cls, params)
       THEN Raise(st, Err("PlaceholderMisuseError"))
     ELSE IF ~C.hasParams THEN Raise(st, Err("MissingParametersError"))
     ELSE IF CheckParametersCount(C, params).kind # "ok"
       THEN Raise(st, CheckParametersCount(C, params))
     ELSE LET m == TypevarsMap(C.parameters, params)
          IN
          IF IsIdentity(m) THEN Return(st, cls)
          ELSE LET r == ResolveSeq(st, C.hints, m, d - 1)
               IN
               IF r.res.kind # "ok" THEN Raise(r.st, r.res)
               ELSE LET f == BuildGenericFields(r.st, r.ts, m, d - 1)
                    IN
                    IF f.res.kind # "ok" THEN Raise(f.st, f.res)
                    ELSE LET i == NewIdentity(f.st.classes, cls, params)
                             created == CreatedModel(f.st.classes, cls, params, r.ts, f.ts)
                         IN [st |-> [classes |-> ClassPut(f.st.classes, i, created),
                                     cache |-> CacheStore(f.st.cache, cls, params, i)],
                             res |-> Ok(i)]

\* lines 28-30, then the rest; a call with no depth left is a RecursionError
GetItem(st, cls, p, d) ==
  IF d = 0 THEN Raise(st, Err("RecursionError"))
  ELSE IF CacheHit(st, cls, p) THEN Return(st, CacheGet(st, cls, p))
  ELSE Specialize(st, cls, p, d)

---------------------------------------------------------------------------
(* Declared templates *)

A == TV("A")
B == TV("B")
IntT == Leaf("int")
StrT == Leaf("str")

Declared(name, hasParams, parameters, hints, hook) ==
  [name |-> name, base |-> "", args |-> <<>>, concrete |-> FALSE, hasParams |-> hasParams,
   parameters |-> parameters, hints |-> hints, hook |-> hook]

\* class GenericModel(BaseModel): __concrete__ = False, no __parameters__
GenericModel == Declared("GenericModel", FALSE, <<>>, <<>>, "default")
\* class Pair(GenericModel, Generic[A, B]): a: A; b: B
Pair == Declared("Pair", TRUE, <<A, B>>, <<A, B>>, "default")
\* class Inner(GenericModel, Generic[A]): v: A
Inner == Declared("Inner", TRUE, <<A>>, <<A>>, "default")
\* class Outer(GenericModel, Generic[A]): xs: List[Inner[A]]   (Inner[A] is Inner)
Outer(inner) == Declared("Outer", TRUE, <<A>>, <<ListOf(Cls(inner))>>, "default")
\* class OuterB(GenericModel, Generic[B]): xs: List[Inner[B]]  (Inner[B] is a derived class)
OuterB(innerB) == Declared("OuterB", TRUE, <<B>>, <<ListOf(Cls(innerB))>>, "default")
\* class Outer2(GenericModel, Generic[A, B]): x: Inner[A]; y: B
Outer2(inner) == Declared("Outer2", TRUE, <<A, B>>, <<Cls(inner), B>>, "default")
\* class Response(GenericModel, Generic[A]): data: A, with __concrete_name__ overridden
Response == Declared("Response", TRUE, <<A>>, <<A>>, "custom")
\* class Plain(GenericModel): n: int
Plain == Declared("Plain", FALSE, <<>>, <<IntT>>, "default")

\* class Node(GenericModel, Generic[A]): next: List['Node[A]']
Node == Declared("Node", TRUE, <<A>>, <<ListOf(Cls("Node"))>>, "default")
\* class Tick(GenericModel, Generic[A]): tock: 'Tock[A]'
Tick == Declared("Tick", TRUE, <<A>>, <<Cls("Tock")>>, "default")
\* class Tock(GenericModel, Generic[A]): tick: Tick[A]
Tock == Declared("Tock", TRUE, <<A>>, <<Cls("Tick")>>, "default")
\* class Ping(GenericModel, Generic[A]): pong: 'Pong'
Ping == Declared("Ping", TRUE, <<A>>, <<Cls("Pong")>>, "default")
\* class Pong(GenericModel, Generic[B]): ping: Ping
Pong == Declared("Pong", TRUE, <<B>>, <<Cls("Ping")>>, "default")

EmptyCache == [k \in {} |-> ""]

\* the classes of a program, keyed by identity
RECURSIVE Classes(_)
Classes(cs) ==
  IF cs = <<>> THEN [k \in {} |-> GenericModel]
  ELSE ClassPut(Classes(Tail(cs)), Head(cs).name, Head(cs))

\* the module state after the class bodies of one program have run
ProgramPair == [classes |-> Classes(<<Pair>>), cache |-> EmptyCache]
ProgramNested == [classes |-> Classes(<<Inner, Outer("Inner")>>), cache |-> EmptyCache]
ProgramNestedB ==
  LET g == GetItem([classes |-> Classes(<<Inner>>), cache |-> EmptyCache],
                   "Inner", Scalar(B), MaxDepth)
  IN [classes |-> ClassPut(g.st.classes, "OuterB", OuterB(g.res.id)), cache |-> g.st.cache]
ProgramSwap == [classes |-> Classes(<<Inner, Outer2("Inner")>>), cache |-> EmptyCache]
ProgramHook == [classes |-> Classes(<<GenericModel, Response, Plain>>), cache |-> EmptyCache]
ProgramCycle == [classes |-> Classes(<<Node, Tick, Tock>>), cache |-> EmptyCache]
ProgramCycleB == [classes |-> Classes(<<Ping, Pong>>), cache |-> EmptyCache]

Programs == {ProgramPair, ProgramNested, ProgramNestedB, ProgramSwap, ProgramHook,
             ProgramCycle, ProgramCycleB}

---------------------------------------------------------------------------
(* Callers *)

ArgTypes == {IntT, StrT, A, B}

Params ==
  {Scalar(x) : x \in ArgTypes}
  \cup {Tuple(<<x>>) : x \in ArgTypes}
  \cup {Tuple(<<x, y>>) : x \in ArgTypes, y \in ArgTypes}
  \cup {Tuple([i \in 1..n |-> IntT]) : n \in 3..MaxArgs}

\* classes that specialization has created (declared ones have no base)
Created(cs) == {i \in DOMAIN cs : cs[i].base # ""}

\* cls[T] for a declared template T: an argument may itself be a template
TemplateParams(cs) == {Scalar(Cls(c)) : c \in DOMAIN cs \ Created(cs)}

\* the caller is between two subscripts
\* no caller runs beside the one that subscripts
NoCallers == <<>>

Idle == [cls |-> "", p |-> Tuple(<<>>), res |-> NoCall, via |-> "none"]

Init ==
  /\ \E prog \in Programs : classes = prog.classes /\ cache = prog.cache
  /\ last = Idle
  /\ callers = NoCallers

\* the statement a call left through: the cached return (line 30), the identity return
\* (line 43), the final return of the created model (line 74) or a raise
ReturnedAt(cs, ch, cls, p, res) ==
  IF res.kind # "ok" THEN "raise"
  ELSE IF CacheKey(cls, p) \in DOMAIN ch THEN "cache"
  ELSE IF res.id \in DOMAIN cs THEN "identity"
  ELSE "created"

\* cls[params] evaluated by a caller
ClassGetItem(cls, p) ==
  LET g == GetItem([classes |-> classes, cache |-> cache], cls, p, MaxDepth)
  IN /\ last = Idle
     /\ \/ g.st.classes = classes
        \/ Cardinality(Created(classes)) < MaxClasses
     /\ classes' = g.st.classes
     /\ cache' = g.st.cache
     /\ last' = [cls |-> cls, p |-> p, res |-> g.res, via |-> ReturnedAt(classes, cache, cls, p, g.res)]
     /\ UNCHANGED callers

\* the caller has taken the class or the exception and goes on
Resume ==
  /\ last # Idle
  /\ last' = Idle
  /\ UNCHANGED <<classes, cache, callers>>

Next ==
  \/ \E cls \in DOMAIN classes, p \in Params \cup TemplateParams(classes) : ClassGetItem(cls, p)
  \/ Resume

Spec == Init /\ [][Next]_vars

---------------------------------------------------------------------------
(* Several callers subscripting the same template with the same arguments, *)
(* each call split at the point where another caller can run: after the    *)
(* cache lookup of lines 28-30 and before the rest of the body, which ends *)
(* with the cache insertion of lines 71-73.  Nothing orders the callers.   *)

Callers == 1..NCallers

\* a caller before its call; alone records that no other caller was between its
\* lookup and its insertion when this caller did its lookup
Waiting(cls, p) == [pc |-> "start", cls |-> cls, p |-> p, res |-> NoCall, alone |-> TRUE]

InitConc ==
  /\ \E prog \in Programs : classes = prog.classes /\ cache = prog.cache
  /\ \E cls \in DOMAIN classes, p \in Params : callers = [t \in Callers |-> Waiting(cls, p)]
  /\ last = Idle

\* lines 28-30: the lookup, returning the cached class on a hit
Lookup(t) ==
  LET c == callers[t]
      st == [classes |-> classes, cache |-> cache]
      alone == \A u \in Callers \ {t} : callers[u].pc # "missed"
  IN /\ c.pc = "start"
     /\ callers' = [callers EXCEPT ![t] =
                      IF CacheHit(st, c.cls, c.p)
                        THEN [c EXCEPT !.pc = "done", !.res = Ok(CacheGet(st, c.cls, c.p)),
                                       !.alone = alone]
                        ELSE [c EXCEPT !.pc = "missed", !.alone = alone]]
     /\ UNCHANGED <<classes, cache, last>>

\* lines 31-74: validation, resolution, creation and the cache insertion
Build(t) ==
  LET c == callers[t]
      g == Specialize([classes |-> classes, cache |-> cache], c.cls, c.p, MaxDepth)
  IN /\ c.pc = "missed"
     /\ classes' = g.st.classes
     /\ cache' = g.st.cache
     /\ callers' = [callers EXCEPT ![t] = [c EXCEPT !.pc = "done", !.res = g.res]]
     /\ UNCHANGED last

NextConc ==
  \/ \E t \in Callers : Lookup(t)
  \/ \E t \in Callers : Build(t)

SpecConc == InitConc /\ [][NextConc]_vars

---------------------------------------------------------------------------
(* Properties *)

FourErrors == {"AlreadyConcreteError", "PlaceholderMisuseError",
               "MissingParametersError", "ArityError"}

\* the classes built for template t with the argument tuple xs
ClassesFor(t, xs) == {c \in Created(classes) : classes[c].base = t /\ classes[c].args = xs}

\* C1 Memoization: at most one class exists per (template, arguments); both the
\* tuple key and, for one argument, the scalar key lead to that class; and a
\* successful call returns the template itself when the arguments are its own
\* parameters and otherwise the one class built for (template, arguments), so two
\* successful calls with the same template and arguments return the same object,
\* in scalar or one-tuple form.
C1_Memoization ==
  /\ \A c1 \in Created(classes), c2 \in Created(classes) :
       (classes[c1].base = classes[c2].base /\ classes[c1].args = classes[c2].args) => c1 = c2
  /\ \A c \in Created(classes) :
       LET C == classes[c]
       IN /\ CacheKey(C.base, Tuple(C.args)) \in DOMAIN cache
          /\ cache[CacheKey(C.base, Tuple(C.args))] = c
          /\ Len(C.args) = 1 =>
               /\ CacheKey(C.base, Scalar(C.args[1])) \in DOMAIN cache
               /\ cache[CacheKey(C.base, Scalar(C.args[1]))] = c
  /\ last.res.kind = "ok" =>
       IF last.p.xs = classes[last.cls].parameters
         THEN last.res.id = last.cls
         ELSE last.res.id \in ClassesFor(last.cls, last.p.xs)

\* the scalar subscript Inner[int] is served from the cache after Outer[int], whose
\* field resolution subscripts Inner with the tuple (int,), has been built
C1_Witness ==
  /\ last.via = "cache"
  /\ last.cls = "Inner"
  /\ last.p = Scalar(IntT)
  /\ last.res.id \in ClassesFor("Inner", <<IntT>>)
  /\ ClassesFor("Outer", <<IntT>>) # {}

\* C2 Identity idempotence: subscripting a non-concrete template that has a non-empty
\* parameter list with exactly its own parameters returns the template itself and
\* changes neither the set of classes nor the cache.
C2_IdentityIdempotence ==
  [][ ( /\ last' # Idle
        /\ ~classes[last'.cls].concrete
        /\ classes[last'.cls].hasParams
        /\ classes[last'.cls].parameters # <<>>
        /\ last'.p.xs = classes[last'.cls].parameters )
      => ( /\ last'.res = Ok(last'.cls)
           /\ classes' = classes
           /\ cache' = cache ) ]_vars

\* a template was subscripted with its own two parameters after classes had been cached
C2_Witness ==
  /\ last.via = "identity"
  /\ last.res.id = last.cls
  /\ Len(last.p.xs) = 2
  /\ DOMAIN cache # {}

\* C3 Arity enforcement: on a non-concrete class that has a parameter list, a call
\* with a different number of arguments fails with ArityError carrying both counts
\* and "many" or "few" by direction; a call with the right number never does.
C3_ArityEnforcement ==
  (last.res.kind # "none" /\ ~classes[last.cls].concrete /\ classes[last.cls].hasParams) =>
    LET actual == Len(last.p.xs)
        expected == Len(classes[last.cls].parameters)
    IN /\ actual > expected =>
            /\ last.res.kind = "ArityError"
            /\ last.res.actual = actual /\ last.res.expected = expected
            /\ last.res.descr = "many"
       /\ actual < expected =>
            /\ last.res.kind = "ArityError"
            /\ last.res.actual = actual /\ last.res.expected = expected
            /\ last.res.descr = "few"
       /\ actual = expected => last.res.kind # "ArityError"

\* three arguments were given to a two-parameter template after classes had been cached
C3_Witness ==
  /\ last.res.kind = "ArityError"
  /\ last.res.actual = 3 /\ last.res.expected = 2 /\ last.res.descr = "many"
  /\ DOMAIN cache # {}

\* the class an independent subscript t[x] returns in the current state
Independent(t, x) ==
  GetItem([classes |-> classes, cache |-> cache], t, Scalar(x), MaxDepth).res.id

\* C4 Recursive substitution: a one-parameter template whose field is declared as a
\* List of Inner[T], subscripted with int, yields a class whose field type is a List
\* of the class Inner[int], the very object an independent Inner[int] returns,
\* whether Inner's own placeholder is T (Outer) or another one (OuterB).
C4_RecursiveSubstitution ==
  \A outer \in {"Outer", "OuterB"} : \A c \in ClassesFor(outer, <<IntT>>) :
    /\ classes[c].hints = <<ListOf(Cls(Independent("Inner", IntT)))>>
    /\ classes[c].hints[1].a[1].n \in ClassesFor("Inner", <<IntT>>)

\* where Inner[T] is Inner itself the substitution reuses the cached class:
\* Outer[int] has the field type List[Inner[int]]
SamePlaceholderSubstitution ==
  \A c \in ClassesFor("Outer", <<IntT>>) :
    /\ classes[c].hints = <<ListOf(Cls(Independent("Inner", IntT)))>>
    /\ classes[c].hints[1].a[1].n \in ClassesFor("Inner", <<IntT>>)

\* C5 Already-concrete rejection: every subscript of a class whose concrete flag is
\* set raises AlreadyConcreteError, whatever the arguments, and the cache holds no
\* key for such a class that the lookup before the check could serve.
C5_AlreadyConcreteRejection ==
  /\ (last.res.kind # "none" /\ classes[last.cls].concrete) =>
        last.res.kind = "AlreadyConcreteError"
  /\ \A k \in DOMAIN cache : ~classes[k.c].concrete

\* a concrete class built from a two-parameter template was subscripted with two arguments
C5_Witness ==
  /\ last.res.kind = "AlreadyConcreteError"
  /\ last.cls \in Created(classes)
  /\ Len(classes[last.cls].args) = 2
  /\ Len(last.p.xs) = 2

\* C6 Partial specialization: Pair[int, B] is a new non-concrete class with the
\* parameter list (B,); Pair[B, int] is another class under another cache key, and
\* its field a, bound to B, stays B instead of being bound again to int.
C6_PartialSpecialization ==
  /\ \A c \in ClassesFor("Pair", <<IntT, B>>) :
       /\ c # "Pair"
       /\ ~classes[c].concrete
       /\ classes[c].parameters = <<B>>
       /\ classes[c].hints = <<IntT, B>>
  /\ \A d \in ClassesFor("Pair", <<B, IntT>>) :
       /\ classes[d].hints = <<B, IntT>>
       /\ ~classes[d].concrete
       /\ \A c \in ClassesFor("Pair", <<IntT, B>>) :
            /\ c # d
            /\ cache[CacheKey("Pair", Tuple(<<IntT, B>>))] = c
            /\ cache[CacheKey("Pair", Tuple(<<B, IntT>>))] = d

\* both Pair[int, B] and Pair[B, int] have been built
C6_Witness ==
  /\ ClassesFor("Pair", <<IntT, B>>) # {}
  /\ ClassesFor("Pair", <<B, IntT>>) # {}

\* C7 Failure atomicity: a call that raises one of the four errors changes neither
\* the cache nor the set of classes, and every call leaves old cache entries as they
\* were and adds entries only for classes that did not exist before it.
C7_FailureAtomicity ==
  [][ /\ last'.res.kind \in FourErrors => (cache' = cache /\ classes' = classes)
      /\ \A k \in DOMAIN cache' :
           IF k \in DOMAIN cache THEN cache'[k] = cache[k]
           ELSE cache'[k] \in DOMAIN classes' \ DOMAIN classes
      /\ DOMAIN cache \subseteq DOMAIN cache' ]_vars

\* a call failed with one of the four errors while the cache held entries
C7_Witness ==
  /\ last.res.kind \in FourErrors
  /\ DOMAIN cache # {}

\* the display name of an argument
ArgName(t) == IF t.k = "cls" THEN classes[t.n].name ELSE t.n

\* C8 Naming: a class built from a template with the default hook is named
\* <template name>[<argument names joined by ", ">]; one built from a template
\* that overrides the hook carries the hook's string.
C8_Naming ==
  /\ \A c \in Created(classes) :
       LET C == classes[c]
           T == classes[C.base]
       IN (\A i \in 1..Len(C.args) : C.args[i].k # "List") =>
          IF T.hook = "default"
            THEN C.name = T.name \o "[" \o
                   (IF Len(C.args) = 1 THEN ArgName(C.args[1])
                    ELSE ArgName(C.args[1]) \o ", " \o ArgName(C.args[2])) \o "]"
            ELSE C.name = CustomConcreteName(classes, T, C.args)
  /\ \A c \in ClassesFor("Pair", <<IntT, StrT>>) : classes[c].name = "Pair[int, str]"
  /\ \A c \in ClassesFor("Pair", <<IntT, B>>) : classes[c].name = "Pair[int, B]"
  /\ \A c \in ClassesFor("Response", <<IntT>>) : classes[c].name = "IntResponse"

\* Pair[int, str] has just been built and carries the default name
C8_Witness ==
  /\ last.via = "created"
  /\ last.cls = "Pair"
  /\ last.p.xs = <<IntT, StrT>>
  /\ classes[last.res.id].name = "Pair[int, str]"

\* a type that still contains a placeholder: a TypeVar, a non-concrete template,
\* or a container one of whose arguments contains one
RECURSIVE ContainsPlaceholder(_)
ContainsPlaceholder(t) ==
  \/ t.k = "tv"
  \/ t.k = "cls" /\ ~classes[t.n].concrete
  \/ t.k = "List" /\ \E i \in 1..Len(t.a) : ContainsPlaceholder(t.a[i])

\* C9 Concreteness invariant: a class built by specialization is flagged concrete
\* exactly when none of its field types contains a placeholder, so a class flagged
\* non-concrete has a field type that still contains one.
C9_ConcretenessInvariant ==
  \A c \in Created(classes) :
    classes[c].concrete <=>
      \A i \in 1..Len(classes[c].hints) : ~ContainsPlaceholder(classes[c].hints[i])

\* the placeholders occurring in a sequence of types, in order of appearance; a
\* template stands for the placeholders of its own field types
RECURSIVE PlaceholdersIn(_, _)
PlaceholdersIn(ts, d) ==
  IF ts = <<>> THEN <<>>
  ELSE LET t == Head(ts)
           h == IF t.k = "tv" THEN <<t>>
                ELSE IF t.k = "List" THEN PlaceholdersIn(t.a, d)
                ELSE IF t.k = "cls" /\ ~classes[t.n].concrete /\ d > 0
                  THEN PlaceholdersIn(classes[t.n].hints, d - 1)
                ELSE <<>>
       IN h \o PlaceholdersIn(Tail(ts), d)

\* C10 Remaining parameter list: the parameter list of a non-concrete class built by
\* specialization holds placeholders only, namely the distinct placeholders of its
\* field types, each once, in order of first appearance.
C10_RemainingParameterList ==
  \A c \in Created(classes) :
    ~classes[c].concrete =>
      /\ \A i \in 1..Len(classes[c].parameters) : classes[c].parameters[i].k = "tv"
      /\ classes[c].parameters = Unique(PlaceholdersIn(classes[c].hints, MaxDepth))

\* C11 Field types of the created class: every field of a newly built class has the
\* type obtained by resolving the declared type once against the binding map, the
\* value the concrete flag and the remaining parameters are computed from; and a
\* field whose declared type contains no placeholder keeps its declared type.
C11_FieldTypes ==
  [][ last'.via = "created" =>
        LET C == classes[last'.cls]
            m == TypevarsMap(C.parameters, last'.p.xs)
            once == ResolveSeq([classes |-> classes, cache |-> cache], C.hints, m,
                               MaxDepth - 1).ts
            built == classes'[last'.res.id].hints
        IN /\ built = once
           /\ \A i \in 1..Len(C.hints) :
                ~ContainsPlaceholder(C.hints[i]) => built[i] = C.hints[i] ]_vars

\* C12 Error precedence: the checks run in the order AlreadyConcreteError,
\* PlaceholderMisuseError, MissingParametersError, ArityError and the earliest failing
\* one is reported; PlaceholderMisuseError is raised only for the root template given a
\* placeholder, a user-declared template accepts placeholder arguments, and the root
\* template given only non-placeholder arguments fails with MissingParametersError.
C12_ErrorPrecedence ==
  last # Idle =>
    LET C == classes[last.cls]
        params == last.p.xs
        tv == \E i \in 1..Len(params) : params[i].k = "tv"
        root == last.cls = GenericModelId
        kind == last.res.kind
    IN /\ C.concrete => kind = "AlreadyConcreteError"
       /\ ~C.concrete /\ root /\ tv => kind = "PlaceholderMisuseError"
       /\ ~C.concrete /\ ~(root /\ tv) /\ ~C.hasParams => kind = "MissingParametersError"
       /\ ~C.concrete /\ ~(root /\ tv) /\ C.hasParams /\ Len(params) # Len(C.parameters)
            => kind = "ArityError"
       /\ kind = "PlaceholderMisuseError" => root /\ tv
       /\ ~root /\ ~C.concrete /\ C.hasParams /\ Len(params) = Len(C.parameters)
            => kind \notin FourErrors
       /\ root /\ ~tv => kind = "MissingParametersError"

\* a concrete class subscripted with the wrong number of arguments, one of them a
\* placeholder: the concreteness check and the arity check both fail
C12_Witness ==
  /\ last # Idle
  /\ classes[last.cls].concrete
  /\ Len(last.p.xs) # Len(classes[last.cls].parameters)
  /\ \E i \in 1..Len(last.p.xs) : last.p.xs[i].k = "tv"
  /\ last.res.kind = "AlreadyConcreteError"

\* the classes the callers have received
Received == {callers[t].res.id : t \in {u \in Callers : callers[u].pc = "done" /\ callers[u].res.kind = "ok"}}

\* the classes built for the pair the callers subscript
BuiltForPair == UNION {ClassesFor(callers[t].cls, callers[t].p.xs) : t \in Callers}

\* C13 Concurrent callers: when several callers specialize the same (template,
\* arguments) pair and their lookups and insertions interleave without
\* synchronization, the pair is specialized at most once and all callers receive
\* the identical class object.
C13_ConcurrentCallers ==
  /\ Cardinality(BuiltForPair) <= 1
  /\ Cardinality(Received) <= 1

\* C13 amended: the pair is specialized at most once and all callers receive the
\* identical class object, the one the cache holds, provided no caller does its
\* lookup while another caller is between its lookup and its insertion.
C13_SequentialCallers ==
  (\A t \in Callers : callers[t].alone) =>
    /\ Cardinality(BuiltForPair) <= 1
    /\ Cardinality(Received) <= 1
    /\ \A t \in Callers :
         callers[t].pc = "done" /\ callers[t].res.kind = "ok" /\ BuiltForPair # {}
           => /\ callers[t].res.id \in BuiltForPair
              /\ CacheKey(callers[t].cls, callers[t].p) \in DOMAIN cache
              /\ cache[CacheKey(callers[t].cls, callers[t].p)] = callers[t].res.id

\* every caller has returned, none overlapped another, the first built the class
\* and the others received it from the cache
C13_Witness ==
  /\ \A t \in Callers : callers[t].pc = "done" /\ callers[t].alone /\ callers[t].res.kind = "ok"
  /\ Cardinality(BuiltForPair) = 1
  /\ Received = BuiltForPair

\* the templates named in a type expression
RECURSIVE TemplatesIn(_)
TemplatesIn(t) ==
  IF t.k = "cls" THEN {t.n}
  ELSE UNION {TemplatesIn(t.a[i]) : i \in 1..Len(t.a)}

\* the templates with unbound placeholders that the field types of c name
FieldTemplates(c) ==
  {x \in UNION {TemplatesIn(classes[c].hints[i]) : i \in 1..Len(classes[c].hints)} :
     ~classes[x].concrete}

\* the templates reached from S in at most n steps through field types, passing
\* only through the templates of T
RECURSIVE ReachedFrom(_, _, _)
ReachedFrom(S, n, T) ==
  IF n = 0 THEN S
  ELSE ReachedFrom(S \cup UNION {FieldTemplates(c) : c \in S \cap T}, n - 1, T)

\* a field type of c leads back to c, directly or through other templates
SelfReferential(c) ==
  c \in ReachedFrom(FieldTemplates(c), Cardinality(DOMAIN classes), DOMAIN classes)

\* a field type of c leads back to c through templates that declare the parameter
\* list of c
SelfReferentialSameParameters(c) ==
  LET same == {x \in DOMAIN classes : classes[x].parameters = classes[c].parameters}
  IN c \in ReachedFrom(FieldTemplates(c) \cap same, Cardinality(DOMAIN classes), same)

\* the call last made passed the four checks and is not the identity subscript
Specializes ==
  /\ last # Idle
  /\ ~classes[last.cls].concrete
  /\ classes[last.cls].hasParams
  /\ Len(last.p.xs) = Len(classes[last.cls].parameters)
  /\ ~IsIdentity(TypevarsMap(classes[last.cls].parameters, last.p.xs))

TemplatesBelow(c) == ReachedFrom({c}, Cardinality(DOMAIN classes), DOMAIN classes)

\* no field type of c leads to a template that references itself
Acyclic(c) == \A x \in TemplatesBelow(c) : ~SelfReferential(x)

\* how deep templates are nested in the field types of an acyclic template
RECURSIVE NestingDepth(_)
NestingDepth(c) ==
  IF FieldTemplates(c) = {} THEN 0
  ELSE LET ds == {NestingDepth(x) : x \in FieldTemplates(c)}
       IN 1 + CHOOSE n \in ds : \A k \in ds : k <= n

\* C15 Termination for acyclic templates: for a template whose field types do not
\* lead back to it, every specialization call returns a class or raises one of the
\* four errors, and the nested calls go no deeper than templates are nested in the
\* field types.
C15_AcyclicTermination ==
  [][ last' # Idle /\ Acyclic(last'.cls) =>
        /\ last'.res.kind \in {"ok"} \cup FourErrors
        /\ GetItem([classes |-> classes, cache |-> cache], last'.cls, last'.p,
                   1 + NestingDepth(last'.cls)).res = last'.res ]_vars

\* the arguments are all concrete types
ConcreteArguments(xs) == \A i \in 1..Len(xs) : xs[i].k = "leaf"

\* the arguments of the partial specialization c1 with its remaining parameters
\* replaced by xs
AllArguments(c1, xs) ==
  LET m == TypevarsMap(classes[c1].parameters, xs)
  IN [i \in 1..Len(classes[c1].args) |-> MapGet(m, classes[c1].args[i])]

\* the field types of template[xs] built directly in the current state
DirectFields(template, xs) ==
  LET g == GetItem([classes |-> classes, cache |-> cache], template, Tuple(xs), MaxDepth)
  IN IF g.res.kind = "ok" THEN g.st.classes[g.res.id].hints ELSE <<>>

\* C16 Staged specialization completes: for a partial specialization of a declared
\* template that leaves placeholders unbound, subscripting it with concrete
\* arguments for its remaining parameters succeeds and gives a concrete class whose
\* field types are those of subscripting the template directly with all the
\* concrete arguments.
C16_StagedSpecialization ==
  /\ last # Idle /\ last.cls \in Created(classes) /\ ~classes[last.cls].concrete
       /\ classes[last.cls].base \notin Created(classes)
       /\ ConcreteArguments(last.p.xs)
       /\ Len(last.p.xs) = Len(classes[last.cls].parameters)
       => last.res.kind = "ok"
  /\ \A c2 \in Created(classes) :
       LET c1 == classes[c2].base
       IN c1 \in Created(classes) /\ classes[c1].base \notin Created(classes)
            /\ ConcreteArguments(classes[c2].args)
          => /\ classes[c2].concrete
             /\ classes[c2].hints =
                  DirectFields(classes[c1].base, AllArguments(c1, classes[c2].args))

\* the key belongs to a call that passes the four checks and is not the identity
\* subscript
ValidKey(k) ==
  LET T == classes[k.c]
  IN /\ ~IsConcrete(T)
     /\ ~PlaceholderMisuse(k.c, k.xs)
     /\ T.hasParams
     /\ Len(T.parameters) = Len(k.xs)
     /\ k.tup \/ Len(k.xs) = 1

\* C17 A cache hit never masks an error: every key (template, args) in the cache has
\* a non-concrete template that declares a parameter list as long as the arguments
\* of the key, and its value is a class newly derived from that template, never the
\* template itself; so a call answered from the cache is one the checks accept.
C17_CacheHitNeverMasksError ==
  /\ \A k \in DOMAIN cache :
       /\ ValidKey(k)
       /\ cache[k] # k.c
       /\ cache[k] \in Created(classes)
       /\ classes[cache[k]].base = k.c
       /\ classes[cache[k]].args = k.xs
  /\ last # Idle /\ last.via = "cache" =>
       /\ ValidKey(CacheKey(last.cls, last.p))
       /\ last.res.kind = "ok"

\* a call was answered from the cache
C17_Witness ==
  /\ last # Idle
  /\ last.via = "cache"
  /\ CacheKey(last.cls, last.p) \in DOMAIN cache
  /\ last.res.id = cache[CacheKey(last.cls, last.p)]

====
